---- MODULE Spec2Model ----
(***************************************************************************)
(* WavCue (src/src/main.rs): read_wave walks the chunks of a RIFF/WAVE     *)
(* file and decodes `fmt `, `cue ` and `bext`; process prints one line per *)
(* cue.  The file is a sequence of bytes; u32 values are kept at their     *)
(* width as two 16-bit limbs <<hi, lo>>, stream positions likewise (the    *)
(* high limb of a position is unbounded).                                  *)
(*                                                                         *)
(* pc is the place in the program: "start", the chunk loop ("walk" at its  *)
(* top, "dispatch" after a chunk header, "cue" in the record loop),        *)
(* "finish" after the loop, "process" in the loop of process, and the ends *)
(* "ok", "err" (read_wave returned Err) then "failed" (main printed it),   *)
(* "panic" (assert!, panic! or an overflow check aborted the process).     *)
(* u32 arithmetic that overflows has both outcomes a build can give: the   *)
(* abort of overflow checks and the wrapped value.                         *)
(*                                                                         *)
(* The file is taken as opened and seekable, and a read fails only at the  *)
(* end of the stream.  stderr keeps which message was printed, not its     *)
(* text.  chunk_start, payload_read and walk_log are history: where the    *)
(* payload of the current chunk starts, how much of it was read, and the   *)
(* chunk headers read so far.  layout and variant say how the input file   *)
(* was built.                                                              *)
(***************************************************************************)
EXTENDS Integers, Sequences, FiniteSets, TLC

VARIABLES file, layout, variant,
          pc, fail, pos,
          size, bytes_processed, buf_tag, chunk_size, num_cue_points, cue_i,
          header, cues, bext,
          stdout, stderr,
          line_i, chunk_start, payload_read, walk_log

vars == <<file, layout, variant, pc, fail, pos, size, bytes_processed, buf_tag,
          chunk_size, num_cue_points, cue_i, header, cues, bext, stdout, stderr,
          line_i, chunk_start, payload_read, walk_log>>

(* ------------------------------ bounds -------------------------------- *)
\* chunks in a generated file
MaxChunks == 3
\* records in a generated `cue ` chunk
MaxCues == 2

(* ------------------------- program constants -------------------------- *)
BextLen == 348
FmtLen == 16
CueRecLen == 24
CueCountLen == 4

\* Option<T>: None is <<>>, Some(x) is <<x>>
None == <<>>
Some(x) == <<x>>

(* ------------------------- bytes and integers ------------------------- *)
B8 == 256
B16 == 65536

RIFF == <<82, 73, 70, 70>>
WAVE == <<87, 65, 86, 69>>
TagBext == <<98, 101, 120, 116>>
TagFmt == <<102, 109, 116, 32>>
TagCue == <<99, 117, 101, 32>>
TagData == <<100, 97, 116, 97>>
TagSint == <<115, 105, 110, 116>>

\* u32::from_le_bytes, as <<high 16 bits, low 16 bits>>
U32FromLeBytes(b) == <<b[4] * B8 + b[3], b[2] * B8 + b[1]>>
\* u16::from_le_bytes
U16FromLeBytes(b) == b[2] * B8 + b[1]

U32Zero == <<0, 0>>
\* a small natural number as a u32 / a position
Wide(n) == <<n \div B16, n % B16>>
WLt(a, b) == a[1] < b[1] \/ (a[1] = b[1] /\ a[2] < b[2])
WLe(a, b) == a = b \/ WLt(a, b)
\* a + b without loss (positions are 64-bit, `as i64` widens)
WAdd(a, b) == <<a[1] + b[1] + ((a[2] + b[2]) \div B16), (a[2] + b[2]) % B16>>
\* a - b for b <= a
WSub(a, b) ==
  IF a[2] >= b[2] THEN <<a[1] - b[1], a[2] - b[2]>>
  ELSE <<a[1] - b[1] - 1, a[2] + B16 - b[2]>>
\* does the sum leave 32 bits
U32Overflows(w) == w[1] >= B16
U32Wrap(w) == <<w[1] % B16, w[2]>>

\* 4 + 24 * n as a mathematical integer (limbs, high limb unbounded)
CueChunkSizeExact(n) ==
  LET lo == CueRecLen * n[2] + CueCountLen
  IN  <<CueRecLen * n[1] + (lo \div B16), lo % B16>>

(* ------------------------------ stream -------------------------------- *)
\* can `n` bytes be read at position p
CanRead(f, p, n) == p[1] = 0 /\ p[2] + n <= Len(f)
\* the n bytes at position p
Bytes(f, p, n) == SubSeq(f, p[2] + 1, p[2] + n)

(* ------------------------------- text --------------------------------- *)
\* String::from_utf8_lossy on bytes none of which is a UTF-8 lead byte
\* (0xC2..0xF4): every byte >= 0x80 is then an invalid sequence of its own
\* and becomes U+FFFD.  The generated files hold no lead byte.
Replacement == 65533
FromUtf8Lossy(b) == [i \in 1..Len(b) |-> IF b[i] < 128 THEN b[i] ELSE Replacement]

\* .trim_end_matches(char::from(0)): up to the last char that is not NUL
TrimEndNul(s) ==
  LET keep == {i \in 1..Len(s) : s[i] # 0}
  IN  IF keep = {} THEN <<>>
      ELSE SubSeq(s, 1, CHOOSE i \in keep : \A j \in keep : j <= i)

(* ------------------------------ decoders ------------------------------ *)
\* the bext fields of the 348 bytes buf_bext
DecodeBext(buf) ==
  [ description |-> TrimEndNul(FromUtf8Lossy(SubSeq(buf, 1, 256))),
    originator |-> TrimEndNul(FromUtf8Lossy(SubSeq(buf, 257, 288))),
    originator_reference |-> TrimEndNul(FromUtf8Lossy(SubSeq(buf, 289, 320))),
    origination_date |-> FromUtf8Lossy(SubSeq(buf, 321, 330)),
    origination_time |-> FromUtf8Lossy(SubSeq(buf, 331, 338)),
    \* time_reference_low | (time_reference_high << 32), as <<high, low>>
    time_reference |-> <<U32FromLeBytes(SubSeq(buf, 343, 346)),
                         U32FromLeBytes(SubSeq(buf, 339, 342))>>,
    version |-> U16FromLeBytes(SubSeq(buf, 347, 348)) ]

\* the Header of the 16 bytes buf_fmt
DecodeFmt(buf) ==
  [ compression_code |-> U16FromLeBytes(SubSeq(buf, 1, 2)),
    number_of_channels |-> U16FromLeBytes(SubSeq(buf, 3, 4)),
    sampling_rate |-> U32FromLeBytes(SubSeq(buf, 5, 8)),
    average_bytes_per_second |-> U32FromLeBytes(SubSeq(buf, 9, 12)),
    block_align |-> U16FromLeBytes(SubSeq(buf, 13, 14)),
    significant_bits_per_sample |-> U16FromLeBytes(SubSeq(buf, 15, 16)) ]

\* is the chunk-type tag of the 24 bytes buf_cue one of `data`, `sint`
CueTagKnown(buf) == SubSeq(buf, 9, 12) \in {TagData, TagSint}

\* the CueEntry of the 24 bytes buf_cue
DecodeCue(buf) ==
  [ cue_id |-> U32FromLeBytes(SubSeq(buf, 1, 4)),
    position |-> U32FromLeBytes(SubSeq(buf, 5, 8)),
    data_chunk_id |-> IF SubSeq(buf, 9, 12) = TagData THEN "Data" ELSE "Sint",
    chunk_start |-> U32FromLeBytes(SubSeq(buf, 13, 16)),
    block_start |-> U32FromLeBytes(SubSeq(buf, 17, 20)),
    sample_start |-> U32FromLeBytes(SubSeq(buf, 21, 24)) ]

(* --------------------------- generated files -------------------------- *)
Le16(n) == <<n % B8, n \div B8>>
Le32(w) == Le16(w[2]) \o Le16(w[1])
Pad(text, n) == text \o [i \in 1..(n - Len(text)) |-> 0]
Filler(n) == [i \in 1..n |-> 120]

TagJunk == <<74, 85, 78, 75>>
TagBad == <<119, 97, 118, 108>>
U32Max == <<B16 - 1, B16 - 1>>
\* 2^29 + 1: 24 * (2^29 + 1) = 2^32 * 3 + 24
CountWrapping == <<8192, 1>>

FmtBytes(v) ==
  IF v = 1
  THEN Le16(1) \o Le16(2) \o Le32(Wide(44100)) \o Le32(Wide(176400)) \o Le16(4) \o Le16(16)
  ELSE Le16(1) \o Le16(1) \o Le32(Wide(8000)) \o Le32(Wide(16000)) \o Le16(2) \o Le16(16)

\* the cue ids of a generated chunk: neither sorted nor distinct
CueIds(n) == [k \in 1..n |-> Wide(IF k % 2 = 1 THEN 9 ELSE 7)]
CueRecBytes(k, tag) ==
  Le32(CueIds(k)[k]) \o Le32(Wide(k)) \o tag \o Le32(U32Zero) \o Le32(U32Zero)
    \o Le32(Wide(22050 * k))
RECURSIVE CueRecsBytes(_)
CueRecsBytes(n) ==
  IF n = 0 THEN <<>>
  ELSE CueRecsBytes(n - 1) \o CueRecBytes(n, IF n % 2 = 1 THEN TagData ELSE TagSint)

BextBytes(v) ==
  IF v = 1
  THEN Pad(<<116, 97, 107, 101>>, 256) \o Pad(<<122>>, 32) \o Pad(<<>>, 32)
         \o <<50, 48, 50, 48, 45, 48, 49, 45, 48, 50>> \o <<49, 48, 45, 50, 48, 45, 51, 48>>
         \o Le32(Wide(88200)) \o Le32(U32Zero) \o Le16(1)
  ELSE Pad(<<255, 0, 98>>, 256) \o Pad(<<111, 0>>, 32) \o Pad(<<114>>, 32)
         \o Pad(<<>>, 10) \o Pad(<<>>, 8)
         \o Le32(U32Max) \o Le32(Wide(1)) \o Le16(0)

Chunk(tag, sz, payload, kind, wf, ids) ==
  [tag |-> tag, size |-> sz, payload |-> payload, kind |-> kind, wf |-> wf, ids |-> ids]
ChunkBytes(c) == c.tag \o Le32(c.size) \o c.payload

FmtChunk(v, extra) ==
  Chunk(TagFmt, Wide(FmtLen + extra), FmtBytes(v) \o Filler(extra), "fmt", TRUE, <<>>)
BextChunk(v, extra) ==
  Chunk(TagBext, Wide(BextLen + extra), BextBytes(v) \o Filler(extra), "bext", TRUE, <<>>)
CueChunk(n) ==
  Chunk(TagCue, Wide(CueCountLen + CueRecLen * n), Le32(Wide(n)) \o CueRecsBytes(n),
        "cue", TRUE, CueIds(n))
\* an unrecognized chunk of odd size whose payload looks like a `cue ` chunk
JunkChunk ==
  Chunk(TagJunk, Wide(8 + CueCountLen + CueRecLen + 1),
        ChunkBytes(CueChunk(1)) \o Filler(1), "other", TRUE, <<>>)

\* chunks after which the walk goes on
GoodChunks ==
  {FmtChunk(1, 0), FmtChunk(2, 2), BextChunk(1, 0), BextChunk(2, 2),
   CueChunk(0), CueChunk(MaxCues), JunkChunk}

\* chunks that end the walk: what follows them is never read
LastChunks ==
  { \* undersized fmt and bext
    Chunk(TagFmt, Wide(FmtLen - 2), SubSeq(FmtBytes(1), 1, FmtLen - 2), "fmt", FALSE, <<>>),
    Chunk(TagBext, Wide(BextLen - 1), SubSeq(BextBytes(1), 1, BextLen - 1), "bext", FALSE, <<>>),
    \* a cue record with an unknown chunk-type tag
    Chunk(TagCue, Wide(CueCountLen + CueRecLen), Le32(Wide(1)) \o CueRecBytes(1, TagBad),
          "cue", FALSE, <<>>),
    \* declared size and count disagree, both ways
    Chunk(TagCue, Wide(CueCountLen + CueRecLen), Le32(Wide(2)) \o CueRecsBytes(2),
          "cue", FALSE, <<>>),
    Chunk(TagCue, Wide(CueCountLen + 2 * CueRecLen), Le32(Wide(1)) \o CueRecsBytes(2),
          "cue", FALSE, <<>>),
    \* 4 + 24 * count leaves 32 bits
    Chunk(TagCue, Wide(CueCountLen + CueRecLen), Le32(CountWrapping) \o CueRecsBytes(2),
          "cue", FALSE, <<>>),
    \* declared size zero
    Chunk(TagJunk, U32Zero, <<>>, "other", FALSE, <<>>),
    \* declared size beyond the end of the file
    Chunk(TagJunk, U32Max, Filler(3), "other", FALSE, <<>>) }

RECURSIVE GoodSeqs(_)
GoodSeqs(n) ==
  IF n = 0 THEN {<<>>}
  ELSE GoodSeqs(n - 1) \cup {Append(s, c) : s \in {t \in GoodSeqs(n - 1) : Len(t) = n - 1},
                                            c \in GoodChunks}

Layouts ==
  GoodSeqs(MaxChunks)
    \cup {Append(s, c) : s \in GoodSeqs(MaxChunks - 1), c \in LastChunks}

RECURSIVE Body(_)
Body(l) == IF l = <<>> THEN <<>> ELSE Body(SubSeq(l, 1, Len(l) - 1)) \o ChunkBytes(l[Len(l)])

Variants == {"ok", "badRIFF", "badWAVE", "riffZero", "riffMax", "cut1", "cutSize", "cutTag"}

Cut(l, v) ==
  LET last == IF l = <<>> THEN 0 ELSE Len(l[Len(l)].payload)
  IN  CASE v = "cut1" -> 1
        [] v = "cutSize" -> last + 2
        [] v = "cutTag" -> last + 6
        [] OTHER -> 0

FileOf(l, v) ==
  LET body == Body(l)
      all == (IF v = "badRIFF" THEN <<82, 73, 70, 88>> ELSE RIFF)
               \o Le32(CASE v = "riffZero" -> U32Zero
                         [] v = "riffMax" -> U32Max
                         [] OTHER -> Wide(4 + Len(body)))
               \o (IF v = "badWAVE" THEN <<65, 86, 73, 32>> ELSE WAVE)
               \o body
  IN  SubSeq(all, 1, Len(all) - Cut(l, v))

(* ------------------------------- Init --------------------------------- *)
Init ==
  /\ layout \in Layouts
  /\ variant \in Variants
  /\ file = FileOf(layout, variant)
  /\ pc = "start"
  /\ fail = "none"
  /\ pos = Wide(0)
  /\ size = U32Zero
  /\ bytes_processed = U32Zero
  /\ buf_tag = <<0, 0, 0, 0>>
  /\ chunk_size = U32Zero
  /\ num_cue_points = U32Zero
  /\ cue_i = 0
  /\ header = None
  /\ cues = <<>>
  /\ bext = None
  /\ stdout = <<>>
  /\ stderr = <<>>
  /\ line_i = 0
  /\ chunk_start = Wide(0)
  /\ payload_read = 0
  /\ walk_log = <<>>

(* ------------------------------ read_wave ----------------------------- *)
input == <<file, layout, variant>>
result == <<header, cues, bext>>
walker == <<size, bytes_processed, buf_tag, chunk_size, num_cue_points, cue_i>>
ghost == <<chunk_start, payload_read, walk_log>>

\* read_exact(..)? met the end of the stream: read_wave returns Err
IoError ==
  /\ pc' = "err"
  /\ fail' = "UnexpectedEof"

\* assert! or panic!: the process aborts
Panic(msg) ==
  /\ pc' = "panic"
  /\ fail' = msg

\* bytes_processed += chunk_size, then back to the top of the loop.  A sum
\* that leaves 32 bits aborts in a build with overflow checks and wraps in
\* one without.
AddProcessed ==
  LET sum == WAdd(bytes_processed, chunk_size)
  IN  \E checked \in (IF U32Overflows(sum) THEN BOOLEAN ELSE {FALSE}) :
        IF checked
        THEN Panic("attempt to add with overflow") /\ UNCHANGED bytes_processed
        ELSE /\ bytes_processed' = U32Wrap(sum)
             /\ pc' = "walk"
             /\ fail' = fail

\* mutant of IsWave: the form type is not looked at
IsWaveAny(b) == TRUE

\* &buf_riff == b"RIFF"
IsRiff(b) == b = RIFF
\* &buf_wave == b"WAVE"
IsWave(b) == b = WAVE

\* the RIFF/WAVE envelope
ReadMagic ==
  /\ pc = "start"
  /\ UNCHANGED <<input, result, bytes_processed, buf_tag, chunk_size, num_cue_points,
                 cue_i, stdout, line_i, ghost>>
  /\ IF ~CanRead(file, Wide(0), 4)
     THEN IoError /\ UNCHANGED <<pos, size, stderr>>
     ELSE IF ~IsRiff(Bytes(file, Wide(0), 4))
     THEN /\ pos' = Wide(4)
          /\ stderr' = Append(stderr, "Not a wav file")
          /\ pc' = "finish"
          /\ UNCHANGED <<fail, size>>
     ELSE IF ~CanRead(file, Wide(4), 4)
     THEN IoError /\ UNCHANGED <<pos, size, stderr>>
     ELSE /\ size' = U32FromLeBytes(Bytes(file, Wide(4), 4))
          /\ IF ~CanRead(file, Wide(8), 4)
             THEN /\ IoError
                  /\ stderr' = Append(stderr, "Audio data size")
                  /\ UNCHANGED pos
             ELSE /\ pos' = Wide(12)
                  /\ UNCHANGED fail
                  /\ IF IsWave(Bytes(file, Wide(8), 4))
                     THEN /\ pc' = "walk"
                          /\ stderr' = Append(stderr, "Audio data size")
                     ELSE /\ pc' = "finish"
                          /\ stderr' = stderr \o <<"Audio data size", "Not a wav file">>

\* mutant of TagRead: the loop goes on only while a whole chunk header is left
HeaderReadable(f, p) == CanRead(f, p, 8)

\* does the loop go on: the read of the next tag succeeded
TagRead(f, p) == CanRead(f, p, 4)

\* the top of the chunk loop: tag, size, assert!(chunk_size > 0)
ReadChunkHeader ==
  /\ pc = "walk"
  /\ UNCHANGED <<input, result, size, bytes_processed, num_cue_points, cue_i, stdout, line_i>>
  /\ IF ~TagRead(file, pos)
     THEN /\ pc' = "finish"
          /\ stderr' = Append(stderr, "bytes left")
          /\ UNCHANGED <<fail, pos, buf_tag, chunk_size, ghost>>
     ELSE /\ buf_tag' = Bytes(file, pos, 4)
          /\ UNCHANGED stderr
          /\ IF ~CanRead(file, WAdd(pos, Wide(4)), 4)
             THEN IoError /\ UNCHANGED <<pos, chunk_size, ghost>>
             ELSE LET sz == U32FromLeBytes(Bytes(file, WAdd(pos, Wide(4)), 4))
                  IN  /\ chunk_size' = sz
                      /\ pos' = WAdd(pos, Wide(8))
                      /\ chunk_start' = WAdd(pos, Wide(8))
                      /\ payload_read' = 0
                      /\ walk_log' = Append(walk_log, [tag |-> buf_tag', start |-> WAdd(pos, Wide(8)),
                                                       size |-> sz])
                      /\ IF sz = U32Zero
                         THEN Panic("assertion failed: chunk_size > 0")
                         ELSE pc' = "dispatch" /\ UNCHANGED fail

\* the position after a chunk of which `done` bytes were read:
\* seek_relative(chunk_size as i64 - done as i64)
SeekPast(p, csize, done) == WAdd(p, WSub(csize, Wide(done)))

\* mutant of BextAssign: the first `bext` chunk wins
BextKeepFirst(old, new) == IF old = None THEN Some(new) ELSE old

\* bext = Some(..): the value after a `bext` chunk was decoded to `new`
BextAssign(old, new) == Some(new)

\* the `bext` branch
DecodeBextChunk ==
  /\ pc = "dispatch"
  /\ buf_tag = TagBext
  /\ UNCHANGED <<input, header, cues, size, buf_tag, chunk_size, num_cue_points, cue_i,
                 stdout, line_i, chunk_start, walk_log>>
  /\ IF WLt(chunk_size, Wide(BextLen))
     THEN /\ Panic("assertion failed: chunk_size >= buf_bext.len()")
          /\ UNCHANGED <<pos, bext, bytes_processed, stderr, payload_read>>
     ELSE IF ~CanRead(file, pos, BextLen)
     THEN IoError /\ UNCHANGED <<pos, bext, bytes_processed, stderr, payload_read>>
     ELSE /\ pos' = SeekPast(WAdd(pos, Wide(BextLen)), chunk_size, BextLen)
          /\ payload_read' = BextLen
          /\ bext' = BextAssign(bext, DecodeBext(Bytes(file, pos, BextLen)))
          /\ stderr' = Append(stderr, "bext")
          /\ AddProcessed

\* mutant of FmtAllowed: the header is not looked at
FmtAlwaysAllowed(h) == TRUE

\* may a `fmt ` chunk be decoded: assert!(header.is_none())
FmtAllowed(h) == h = None

\* the `fmt ` branch
DecodeFmtChunk ==
  /\ pc = "dispatch"
  /\ buf_tag = TagFmt
  /\ UNCHANGED <<input, cues, bext, size, buf_tag, chunk_size, num_cue_points, cue_i,
                 stdout, line_i, chunk_start, walk_log>>
  /\ IF WLt(chunk_size, Wide(FmtLen))
     THEN /\ Panic("assertion failed: chunk_size >= 16")
          /\ UNCHANGED <<pos, header, bytes_processed, stderr, payload_read>>
     ELSE IF ~FmtAllowed(header)
     THEN /\ Panic("assertion failed: header.is_none()")
          /\ UNCHANGED <<pos, header, bytes_processed, stderr, payload_read>>
     ELSE IF ~CanRead(file, pos, FmtLen)
     THEN IoError /\ UNCHANGED <<pos, header, bytes_processed, stderr, payload_read>>
     ELSE /\ pos' = SeekPast(WAdd(pos, Wide(FmtLen)), chunk_size, FmtLen)
          /\ payload_read' = FmtLen
          /\ header' = Some(DecodeFmt(Bytes(file, pos, FmtLen)))
          /\ stderr' = Append(stderr, "header")
          /\ AddProcessed

\* chunk_size == 4 + 24 * num_cue_points in wrapping u32 arithmetic
CueSizeMatches(csize, n) == csize = U32Wrap(CueChunkSizeExact(n))

\* the `cue ` branch up to its loop: the count and the size assertion.  When
\* 4 + 24 * count leaves 32 bits a build with overflow checks aborts and one
\* without compares the wrapped value.
ReadCueCount ==
  /\ pc = "dispatch"
  /\ buf_tag = TagCue
  /\ UNCHANGED <<input, result, size, bytes_processed, buf_tag, chunk_size, stdout, stderr,
                 line_i, chunk_start, walk_log>>
  /\ IF ~CanRead(file, pos, CueCountLen)
     THEN IoError /\ UNCHANGED <<pos, num_cue_points, cue_i, payload_read>>
     ELSE LET n == U32FromLeBytes(Bytes(file, pos, CueCountLen))
          IN  /\ pos' = WAdd(pos, Wide(CueCountLen))
              /\ payload_read' = CueCountLen
              /\ num_cue_points' = n
              /\ cue_i' = 0
              /\ \E checked \in (IF U32Overflows(CueChunkSizeExact(n)) THEN BOOLEAN ELSE {FALSE}) :
                   IF checked
                   THEN Panic("attempt to multiply with overflow")
                   ELSE IF ~CueSizeMatches(chunk_size, n)
                   THEN Panic("assertion failed: chunk_size == 4 + 24 * num_cue_points")
                   ELSE pc' = "cue" /\ UNCHANGED fail

\* mutant of Push: the entry goes to the front
PushFront(list, entry) == <<entry>> \o list

\* cues.push(entry)
Push(list, entry) == Append(list, entry)

\* one iteration of `for _ in 0..num_cue_points`
ReadCueRecord ==
  /\ pc = "cue"
  /\ WLt(Wide(cue_i), num_cue_points)
  /\ UNCHANGED <<input, header, bext, size, bytes_processed, buf_tag, chunk_size,
                 num_cue_points, stdout, line_i, chunk_start, walk_log>>
  /\ IF ~CanRead(file, pos, CueRecLen)
     THEN IoError /\ UNCHANGED <<pos, cues, cue_i, stderr, payload_read>>
     ELSE /\ pos' = WAdd(pos, Wide(CueRecLen))
          /\ payload_read' = payload_read + CueRecLen
          /\ IF ~CueTagKnown(Bytes(file, pos, CueRecLen))
             THEN Panic("Aiee") /\ UNCHANGED <<cues, cue_i, stderr>>
             ELSE /\ cues' = Push(cues, DecodeCue(Bytes(file, pos, CueRecLen)))
                  /\ cue_i' = cue_i + 1
                  /\ stderr' = Append(stderr, "entry")
                  /\ UNCHANGED <<pc, fail>>

\* the end of the `cue ` branch
CueChunkEnd ==
  /\ pc = "cue"
  /\ Wide(cue_i) = num_cue_points
  /\ UNCHANGED <<input, result, pos, size, buf_tag, chunk_size, num_cue_points, cue_i,
                 stdout, stderr, line_i, ghost>>
  /\ AddProcessed

\* mutant of SkipTo: no seek
SkipToNowhere(p, csize) == p

\* the position after an unrecognized chunk: seek_relative(chunk_size as i64)
SkipTo(p, csize) == WAdd(p, csize)

\* any other tag
SkipChunk ==
  /\ pc = "dispatch"
  /\ buf_tag \notin {TagBext, TagFmt, TagCue}
  /\ UNCHANGED <<input, result, size, buf_tag, chunk_size, num_cue_points, cue_i,
                 stdout, line_i, ghost>>
  /\ stderr' = Append(stderr, "skipping")
  /\ pos' = SkipTo(pos, chunk_size)
  /\ AddProcessed

\* mutant of HeaderFound: the header is taken to be there
HeaderAssumed(h) == TRUE

\* is there a header to return
HeaderFound(h) == h # None

\* after the walk: the header or panic!("No header")
Finish ==
  /\ pc = "finish"
  /\ UNCHANGED <<input, result, pos, walker, stdout, stderr, line_i, ghost>>
  /\ IF HeaderFound(header)
     THEN pc' = "process" /\ UNCHANGED fail
     ELSE Panic("No header")

(* ------------------------------- process ------------------------------ *)
\* the line of a cue.  The quotients of the two times are kept as their
\* operands (sample count, sampling rate); the absolute time is there when
\* bext is, as <<time_reference, sample_start>>.
Line(cue, h, b) ==
  [ seconds |-> <<cue.sample_start, h.sampling_rate>>,
    cue_id |-> cue.cue_id,
    time_label |-> IF b = None THEN None
                   ELSE Some(<<b[1].time_reference, cue.sample_start>>) ]

\* the cue the loop of process visits at its i-th iteration (from 0)
NextCue(list, i) == list[i + 1]

\* println! for the next cue of wave.cues
EmitLine ==
  /\ pc = "process"
  /\ line_i < Len(cues)
  /\ stdout' = Append(stdout, Line(NextCue(cues, line_i), header[1], bext))
  /\ line_i' = line_i + 1
  /\ UNCHANGED <<input, result, pc, fail, pos, walker, stderr, ghost>>

\* process returns Ok(())
ProcessDone ==
  /\ pc = "process"
  /\ line_i = Len(cues)
  /\ pc' = "ok"
  /\ UNCHANGED <<input, result, fail, pos, walker, stdout, stderr, line_i, ghost>>

\* main: the Err of process is printed
ReportFailure ==
  /\ pc = "err"
  /\ pc' = "failed"
  /\ stderr' = Append(stderr, "Failed to process")
  /\ UNCHANGED <<input, result, fail, pos, walker, stdout, line_i, ghost>>

Next ==
  \/ ReadMagic
  \/ ReadChunkHeader
  \/ DecodeBextChunk
  \/ DecodeFmtChunk
  \/ ReadCueCount
  \/ ReadCueRecord
  \/ CueChunkEnd
  \/ SkipChunk
  \/ Finish
  \/ EmitLine
  \/ ProcessDone
  \/ ReportFailure

Spec == Init /\ [][Next]_vars

(* --------------------- what a generated file holds -------------------- *)
Terminal == pc \in {"ok", "failed", "panic"}

IsKind(c, k) == c.kind = k
NotOther(c) == c.kind # "other"
IsFmt(c) == c.kind = "fmt"
IsCue(c) == c.kind = "cue"
IsBext(c) == c.kind = "bext"

\* the file is whole (its RIFF size may be wrong) and every chunk is sound
Intact ==
  /\ variant \in {"ok", "riffZero", "riffMax"}
  /\ \A i \in 1..Len(layout) : layout[i].wf
\* the chunk loop can walk the whole file
Walkable == Intact /\ Len(SelectSeq(layout, IsFmt)) <= 1
\* and it holds the one `fmt ` chunk
WellFormed == Intact /\ Len(SelectSeq(layout, IsFmt)) = 1

RECURSIVE Flatten(_)
Flatten(ss) == IF ss = <<>> THEN <<>> ELSE Head(ss) \o Flatten(Tail(ss))

\* the records a generated `cue ` chunk was built from
RecordsOf(c) ==
  [k \in 1..Len(c.ids) |->
     DecodeCue(SubSeq(c.payload, CueCountLen + CueRecLen * (k - 1) + 1,
                      CueCountLen + CueRecLen * k))]

ExpectedHeader(l) ==
  LET f == SelectSeq(l, IsFmt)
  IN  IF f = <<>> THEN None ELSE Some(DecodeFmt(SubSeq(f[1].payload, 1, FmtLen)))
ExpectedCues(l) ==
  LET c == SelectSeq(l, IsCue) IN Flatten([i \in 1..Len(c) |-> RecordsOf(c[i])])
ExpectedCueIds(l) ==
  LET c == SelectSeq(l, IsCue) IN Flatten([i \in 1..Len(c) |-> c[i].ids])
ExpectedBext(l) ==
  LET b == SelectSeq(l, IsBext)
  IN  IF b = <<>> THEN None ELSE Some(DecodeBext(SubSeq(b[Len(b)].payload, 1, BextLen)))

\* the chunks the walk met, by tag
LogIsCue(e) == e.tag = TagCue
LogIsFmt(e) == e.tag = TagFmt
LogIsBext(e) == e.tag = TagBext
LogIsOther(e) == e.tag \notin {TagBext, TagFmt, TagCue}

\* the cue ids on disk in the `cue ` chunk the walk met at e
CueIdsAt(e) ==
  LET n == U32FromLeBytes(Bytes(file, e.start, CueCountLen))[2]
  IN  [k \in 1..n |->
         U32FromLeBytes(Bytes(file, WAdd(e.start, Wide(CueCountLen + CueRecLen * (k - 1))), 4))]
OnDiskCueIds ==
  LET c == SelectSeq(walk_log, LogIsCue) IN Flatten([i \in 1..Len(c) |-> CueIdsAt(c[i])])

(* ------------------------------- claims ------------------------------- *)

\* C1: when process has returned Ok, stdout holds exactly one line per cue
\* record of the `cue ` chunks the walk met, the k-th line carrying the cue id
\* of the k-th record on disk (no record dropped, repeated, merged or moved,
\* across several `cue ` chunks too); for a well-formed generated file these
\* are the ids the file was built from.
C1_OneLinePerCueInOrder ==
  pc = "ok" =>
    /\ [k \in 1..Len(stdout) |-> stdout[k].cue_id] = OnDiskCueIds
    /\ WellFormed => OnDiskCueIds = ExpectedCueIds(layout)

\* two `cue ` chunks with records were decoded and printed; the ids repeat
\* and are not sorted
C1_Witness ==
  /\ pc = "ok"
  /\ Len(SelectSeq(walk_log, LogIsCue)) = 2
  /\ Len(stdout) = 2 * MaxCues
  /\ stdout[1].cue_id = Wide(9)
  /\ stdout[2].cue_id = Wide(7)

\* C2: the record loop of a `cue ` chunk is entered only when chunk_size is
\* 4 + 24 * count as a mathematical integer, and no more than chunk_size
\* payload bytes of the chunk are ever read.
C2_CueSizeExactOrFail ==
  pc = "cue" =>
    /\ chunk_size = CueChunkSizeExact(num_cue_points)
    /\ WLe(Wide(payload_read), chunk_size)

Strip(l) == SelectSeq(l, NotOther)

\* C3: a step of the walker at a chunk whose tag is none of `fmt `, `cue `,
\* `bext` moves the stream by exactly chunk_size and changes none of header,
\* cues, bext; and the result read from a well-formed file is the one of the
\* file's recognized chunks alone, that is of the file without its
\* unrecognized chunks.
C3_UnknownChunkSkipped ==
  /\ [][(pc = "dispatch" /\ buf_tag \notin {TagBext, TagFmt, TagCue})
          => (pos' = WAdd(pos, chunk_size) /\ UNCHANGED <<header, cues, bext>>)]_vars
  /\ [](WellFormed /\ pc \in {"process", "ok"}
          => /\ header = ExpectedHeader(Strip(layout))
             /\ cues = ExpectedCues(Strip(layout))
             /\ bext = ExpectedBext(Strip(layout)))

\* an unrecognized chunk between a `fmt ` and a `cue ` chunk was walked
C3_Witness ==
  /\ pc = "ok"
  /\ variant = "ok"
  /\ Len(layout) = 3
  /\ layout[1].kind = "fmt"
  /\ layout[2].kind = "other"
  /\ layout[3].kind = "cue"
  /\ Len(cues) = MaxCues
  /\ Len(walk_log) = 3

\* C4: a header, once decoded, is never replaced; and when the walk has met
\* a second `fmt ` chunk it is at that chunk's dispatch or has failed there,
\* no byte of the chunk's payload read.
C4_SecondFmtRejected ==
  /\ [][header # None => header' = header]_vars
  /\ [](Len(SelectSeq(walk_log, LogIsFmt)) >= 2
          => /\ pc \in {"dispatch", "panic"}
             /\ payload_read = 0
             /\ pos = chunk_start
             /\ LogIsFmt(walk_log[Len(walk_log)]))

\* the second `fmt ` chunk, a chunk after the first, was refused
C4_Witness ==
  /\ pc = "panic"
  /\ fail = "assertion failed: header.is_none()"
  /\ Len(walk_log) = 3
  /\ LogIsFmt(walk_log[1])
  /\ ~LogIsFmt(walk_log[2])
  /\ header = Some(DecodeFmt(Bytes(file, walk_log[1].start, FmtLen)))

\* the file has its first 4 bytes and they are not RIFF, or has its bytes
\* 8..12 and they are not WAVE
BadMagic ==
  \/ Len(file) >= 4 /\ SubSeq(file, 1, 4) # RIFF
  \/ Len(file) >= 12 /\ SubSeq(file, 9, 12) # WAVE

\* C5: a file with bad magic is reported as not a wav file; no chunk is
\* walked, no header, cue or bext is produced and nothing is printed.
C5_BadMagicNotDecoded ==
  (BadMagic /\ pc # "start") =>
    /\ \E i \in 1..Len(stderr) : stderr[i] = "Not a wav file"
    /\ walk_log = <<>>
    /\ header = None
    /\ cues = <<>>
    /\ bext = None
    /\ stdout = <<>>
    /\ pc \notin {"walk", "dispatch", "cue", "process", "ok"}

\* a file with chunks but the wrong form type was reported and left
C5_Witness ==
  /\ pc = "panic"
  /\ variant = "badWAVE"
  /\ Len(layout) = MaxChunks
  /\ stderr = <<"Audio data size", "Not a wav file">>

\* C6: no failure of the walker or the decoders is a panic.
C6_NoPanic == pc # "panic"

\* C7: read_wave returns a WaveFileInfo only with the header decoded from a
\* `fmt ` chunk the walk met; a well-formed file with neither `cue ` nor
\* `bext` never fails, and has no cues and no bext.
C7_HeaderRequiredCuesOptional ==
  /\ pc \in {"process", "ok"}
       => \E i \in 1..Len(walk_log) :
            /\ LogIsFmt(walk_log[i])
            /\ header = Some(DecodeFmt(Bytes(file, walk_log[i].start, FmtLen)))
  /\ (WellFormed /\ SelectSeq(layout, IsCue) = <<>> /\ SelectSeq(layout, IsBext) = <<>>)
       => /\ pc \notin {"err", "failed", "panic"}
          /\ fail = "none"
          /\ cues = <<>>
          /\ bext = None
          /\ stdout = <<>>

\* a file of a `fmt ` chunk and unrecognized chunks was accepted
C7_Witness ==
  /\ pc = "ok"
  /\ WellFormed
  /\ Len(layout) >= 2
  /\ SelectSeq(layout, IsCue) = <<>>
  /\ SelectSeq(layout, IsBext) = <<>>
  /\ header # None
  /\ stdout = <<>>

\* C8, on files that fit in memory: at the top of the chunk loop the stream
\* is at the previous chunk's payload start plus its chunk_size, and a
\* `fmt ` or `bext` chunk that declares less than its fixed layout fails with
\* none of its payload read.  The `cue ` branch does not seek: it ends at
\* payload start + 4 + 24 * count, which is the chunk's end only while
\* C2_CueSizeExactOrFail holds; the files that tell the difference hold
\* 2^29 + 1 records and more.
C8_LoopTopAtChunkEnd ==
  /\ (pc = "walk" /\ walk_log # <<>>)
       => pos = WAdd(walk_log[Len(walk_log)].start, walk_log[Len(walk_log)].size)
  /\ fail \in {"assertion failed: chunk_size >= 16",
               "assertion failed: chunk_size >= buf_bext.len()"}
       => payload_read = 0 /\ pos = chunk_start

\* a read the walker or a decoder needs after a tag was read does not fit
\* in what is left of the stream
NeededReadMissing ==
  \/ pc = "walk" /\ CanRead(file, pos, 4) /\ ~CanRead(file, WAdd(pos, Wide(4)), 4)
  \/ /\ pc = "dispatch"
     /\ \/ buf_tag = TagBext /\ WLe(Wide(BextLen), chunk_size) /\ ~CanRead(file, pos, BextLen)
        \/ /\ buf_tag = TagFmt /\ WLe(Wide(FmtLen), chunk_size) /\ header = None
           /\ ~CanRead(file, pos, FmtLen)
        \/ buf_tag = TagCue /\ ~CanRead(file, pos, CueCountLen)
  \/ pc = "cue" /\ WLt(Wide(cue_i), num_cue_points) /\ ~CanRead(file, pos, CueRecLen)

\* bytes of the stream from the position on
Left == IF pos[1] > 0 \/ pos[2] >= Len(file) THEN 0 ELSE Len(file) - pos[2]

\* a natural number that every step of the program makes smaller: in the
\* chunk loop the bytes left, then the place in the iteration
Measure ==
  CASE pc = "start" -> 4 + 5 * Len(file)
    [] pc = "walk" -> 3 + Len(file) + 4 * Left
    [] pc = "cue" -> 3 + Len(file) + 4 * Left + 1
    [] pc = "dispatch" -> 3 + Len(file) + 4 * Left + 2
    [] pc = "finish" -> 2 + Len(cues)
    [] pc = "process" -> 1 + (Len(cues) - line_i)
    [] pc = "err" -> 1
    [] OTHER -> 0

\* the guard of some action holds (each action's update is total)
CanStep ==
  \/ pc \in {"start", "walk", "finish", "err"}
  \/ pc = "dispatch"
  \/ pc = "cue" /\ WLe(Wide(cue_i), num_cue_points)
  \/ pc = "process" /\ line_i <= Len(cues)

\* C9: the chunk loop terminates (every step makes Measure smaller and only
\* a finished program has no step); the loop is left normally exactly when
\* the read of the next tag fails; a needed read that meets the end of the
\* stream after a tag makes read_wave return Err; and whatever the RIFF size
\* at offset 4 (right, zero or 2^32 - 1) a file the loop can walk has every
\* chunk walked and the result of its chunks.
C9_WalkEndsAtEndOfStream ==
  /\ [][Measure' < Measure]_vars
  /\ [](Terminal \/ CanStep)
  /\ [][pc = "walk" => (pc' = "finish" <=> ~CanRead(file, pos, 4))]_vars
  /\ [][NeededReadMissing => pc' = "err"]_vars
  /\ [](Walkable /\ pc \in {"finish", "process", "ok"}
          => /\ Len(walk_log) = Len(layout)
             /\ header = ExpectedHeader(layout)
             /\ cues = ExpectedCues(layout)
             /\ bext = ExpectedBext(layout))

\* a stream that ends inside a chunk's size field, after other chunks
C9_Witness ==
  /\ pc = "failed"
  /\ variant = "cutSize"
  /\ fail = "UnexpectedEof"
  /\ Len(walk_log) = MaxChunks - 1

\* the bext decoded from the last `bext` chunk the walk met
LastBextWalked ==
  LET b == SelectSeq(walk_log, LogIsBext)
  IN  IF b = <<>> THEN None ELSE Some(DecodeBext(Bytes(file, b[Len(b)].start, BextLen)))

\* C10: decoding a `bext` chunk changes neither header nor cues; between
\* chunks and after the walk bext is the decoding of the last `bext` chunk
\* met (none when none was met); a file the loop can walk never fails for
\* its `bext` chunks, however many, and ends with the last one's value.
C10_LastBextWins ==
  /\ [][(pc = "dispatch" /\ buf_tag = TagBext) => UNCHANGED <<header, cues>>]_vars
  /\ [](pc \in {"walk", "finish", "process", "ok"} => bext = LastBextWalked)
  /\ [](Walkable => /\ pc \notin {"err", "failed"}
                    /\ pc = "panic" => fail = "No header"
                    /\ pc \in {"finish", "process", "ok"} => bext = ExpectedBext(layout))

\* two different `bext` chunks were decoded and the second one's value stays
C10_Witness ==
  /\ pc = "ok"
  /\ Len(SelectSeq(walk_log, LogIsBext)) = 2
  /\ layout[1].kind = "bext"
  /\ bext = Some(DecodeBext(BextBytes(2)))
  /\ Some(DecodeBext(SubSeq(layout[1].payload, 1, BextLen))) # bext

====
